---- MODULE Spec2Model ----
(***************************************************************************)
(* A model of the neuronal dynamics core of ngc-learn: the winner-take-all *)
(* spiking cell (WTASCell) and the resonate-and-fire cell (RAFCell).       *)
(*                                                                         *)
(* Numbers.  The code computes in float32; the model computes in integers: *)
(*   - thresholds, thr_gain and the threshold floor are in thousandths     *)
(*     (0.025 is 25, 0.002 is 2, 0.4 is 400);                              *)
(*   - times (t, dt, refract_T, rfr, tols) are whole milliseconds;         *)
(*   - WTAS currents and voltages are whole multiples of ln 2, so that     *)
(*     exp(v) is the exact power of two 2^v and softmax is an exact        *)
(*     fraction, compared with a threshold by cross-multiplication;        *)
(*   - RAF voltages and drivers are whole numbers, and a multiplication    *)
(*     by 1/tau is the quantising division \div.                           *)
(* Non-finite floats (inf, NaN) and float32 rounding are not modelled.     *)
(*                                                                         *)
(* Tensors.  A tensor is a sequence of rows, each a sequence of elements   *)
(* (shape rows x cols).  Element-wise operations broadcast as jax.numpy    *)
(* does: two dimensions are compatible when equal or when one of them      *)
(* is 1; any other pair raises a shape error.                              *)
(***************************************************************************)
EXTENDS Integers, Sequences, FiniteSets, TLC

VARIABLES
    cfg,    \* the constructed cell's hyperparameters (self.<name>), fixed for its life
    j,      \* compartment j: input current
    v,      \* compartment v: voltage
    w,      \* compartment w: angular driver (RAFCell only)
    s,      \* compartment s: spikes
    thr,    \* compartment thr: adaptive threshold (WTASCell only)
    rfr,    \* compartment rfr: refractory timer (WTASCell only)
    tols,   \* compartment tols: time of last spike
    dir,    \* the directory on disk: file name -> saved tensor
    clk,    \* the driver's simulation time, passed as t to advance
    calls,  \* the number of calls the driver has made on the cell
    op,     \* the last call made on the cell (name, t, dt) and the one before it
    pre,    \* the compartments and directory as they were before that call
    hist,   \* the advances that succeeded since construction or the last reset
    sg,     \* a surrogate builder's functions, their arguments and what they returned
    ref,    \* the threshold tensor that construction or the last load installed, and
            \* which units' thresholds have been above the floor ever since
    err     \* how the last call ended: "none", "shape" or "io"

vars == <<cfg, j, v, w, s, thr, rfr, tols, dir, clk, calls, op, pre, hist, sg, ref, err>>

(***************************************************************************)
(* Bound of the model.                                                     *)
(***************************************************************************)
\* A driver makes at most MaxCalls calls on the cell it constructed.
MaxCalls == 3

(***************************************************************************)
(* Tensors and jax.numpy broadcasting.                                     *)
(***************************************************************************)
Nil == <<>>     \* a compartment the cell does not have (a tensor has a row)
NoFile == <<>>  \* no file of that name in the directory

Shape(A) == <<Len(A), Len(A[1])>>

\* restVals + x
Full(b, n, x) == [r \in 1..b |-> [c \in 1..n |-> x] \o <<>>] \o <<>>

\* The broadcast of two dimensions; 0 when they are incompatible.
BDim(a, b) == IF a = b THEN a ELSE IF a = 1 THEN b ELSE IF b = 1 THEN a ELSE 0

\* The broadcast of two shapes; <<0, 0>> when they are incompatible.
BShape(p, q) ==
    IF BDim(p[1], q[1]) = 0 \/ BDim(p[2], q[2]) = 0
    THEN <<0, 0>>
    ELSE <<BDim(p[1], q[1]), BDim(p[2], q[2])>>

BadShape(p) == p = <<0, 0>>

\* Element (r, c) of A seen at a broadcast shape.
At(A, r, c) == A[IF Len(A) = 1 THEN 1 ELSE r][IF Len(A[1]) = 1 THEN 1 ELSE c]

\* The rows x cols tensor whose element (r, c) is E(r, c), as explicit
\* sequences (\o <<>> makes a function over 1..n the sequence it is).
Tensor(rows, cols, E(_, _)) ==
    [r \in 1..rows |-> [c \in 1..cols |-> E(r, c)] \o <<>>] \o <<>>

\* An element-wise operation of one tensor.  (The operand is bound once, as x,
\* so that it is evaluated once.)
Map1(F(_), A) ==
    CHOOSE T \in { Tensor(Len(x), Len(x[1]), LAMBDA r, c: F(x[r][c])) :
                     x \in {A} } : TRUE

\* An element-wise operation of two tensors, broadcast to their common shape.
Map2(F(_, _), A, B) ==
    CHOOSE T \in { Tensor(BShape(Shape(x), Shape(y))[1], BShape(Shape(x), Shape(y))[2],
                          LAMBDA r, c: F(At(x, r, c), At(y, r, c))) :
                     x \in {A}, y \in {B} } : TRUE

RECURSIVE SeqSum(_)
SeqSum(q) == IF q = <<>> THEN 0 ELSE q[1] + SeqSum(Tail(q))

RECURSIVE SeqMin(_)
SeqMin(q) == IF Len(q) = 1 THEN q[1]
             ELSE IF q[1] <= SeqMin(Tail(q)) THEN q[1] ELSE SeqMin(Tail(q))

\* jnp.sum(A, axis=1, keepdims=True): shape rows x 1
RowSum(A) == [r \in 1..Len(A) |-> <<SeqSum(A[r])>>]

Max(a, b) == IF a >= b THEN a ELSE b

RECURSIVE Exp2(_)
Exp2(k) == IF k <= 0 THEN 1 ELSE 2 * Exp2(k - 1)

(***************************************************************************)
(* ngclearn.utils.model_utils.softmax, row by row.  With voltages in units *)
(* of ln 2, exp(x) is 2^x; every exponent is taken relative to the row's   *)
(* minimum, which leaves the quotient unchanged.  An element of the result *)
(* is the exact fraction <<numerator, denominator>>.                       *)
(***************************************************************************)
softmax(A) ==
    [r \in 1..Len(A) |->
        [c \in 1..Len(A[r]) |->
            << Exp2(A[r][c] - SeqMin(A[r])),
               SeqSum([k \in 1..Len(A[r]) |-> Exp2(A[r][k] - SeqMin(A[r]))]) >>]]

\* p > h for a fraction p = <<num, den>> and a threshold h in thousandths.
FracGt(p, h) == p[1] * 1000 > h * p[2]

(***************************************************************************)
(* WTASCell                                                                *)
(***************************************************************************)
\* jnp.maximum(..., 0.025)
ThrFloor == 25
\* q = 1.
q == 1

\* update_times stamping every unit with t, whether it spiked or not
update_times_all(t, ss, tt) ==
    Map2(LAMBDA x, y: t, ss, tt)

update_times(t, ss, tt) ==
    Map2(LAMBDA x, y: (1 - x) * y + (x * t), ss, tt)

\* wtas_mask admitting a unit only once its timer has passed refract_T
wtas_mask_strict(rr, refract_T) ==
    Map1(LAMBDA x: IF x > refract_T THEN 1 ELSE 0, rr)

\* The refractory mask of run_cell.
wtas_mask(rr, refract_T) ==
    Map1(LAMBDA x: IF x >= refract_T THEN 1 ELSE 0, rr)

\* wtas_spikes without the comparison: the probability itself, in thousandths
wtas_spikes_soft(vv, v_thr) ==
    Map2(LAMBDA p, h: (p[1] * 1000) \div p[2], softmax(vv), v_thr)

\* The spikes of run_cell: softmax probability against each unit's threshold.
wtas_spikes(vv, v_thr) ==
    Map2(LAMBDA p, h: IF FracGt(p, h) THEN 1 ELSE 0, softmax(vv), v_thr)

\* wtas_new_thr without its floor: v_thr + dthr * thr_gain
wtas_new_thr_nofloor(v_thr, ss, thr_gain) ==
    Map2(LAMBDA h, d: h + d * thr_gain, v_thr,
         Map1(LAMBDA x: x - 1, RowSum(ss)))

\* wtas_new_thr with jnp.minimum for jnp.maximum
wtas_new_thr_min(v_thr, ss, thr_gain) ==
    Map2(LAMBDA h, d: IF h + d * thr_gain <= 25 THEN h + d * thr_gain ELSE 25, v_thr,
         Map1(LAMBDA x: x - 1, RowSum(ss)))

\* wtas_new_thr adapting each unit by its own spike: up if it fired, down if not
wtas_new_thr_own(v_thr, ss, thr_gain) ==
    Map2(LAMBDA h, z: Max(h + (2 * z - 1) * thr_gain, 25), v_thr, ss)

\* wtas_new_thr giving the row's increment only to the units that spiked
wtas_new_thr_spiked(v_thr, ss, thr_gain) ==
    Map2(LAMBDA h, e: Max(h + e * thr_gain, 25), v_thr,
         Map2(LAMBDA z, d: z * d, ss, Map1(LAMBDA x: x - 1, RowSum(ss))))

\* The threshold update of run_cell.
wtas_new_thr(v_thr, ss, thr_gain) ==
    Map2(LAMBDA h, d: Max(h + d * thr_gain, ThrFloor), v_thr,
         Map1(LAMBDA x: x - q, RowSum(ss)))

\* wtas_new_rfr restarting the timer of a unit that spiked at 0 instead of dt
wtas_new_rfr_zero(rr, ss, dt) ==
    Map2(LAMBDA x, z: (x + dt) * (1 - z), rr, ss)

\* The refractory timer update of run_cell.
wtas_new_rfr(rr, ss, dt) ==
    Map2(LAMBDA x, z: (x + dt) * (1 - z) + z * dt, rr, ss)

\* run_cell integrating the voltage leakily, v + (j * R_m - v) / tau_m, from
\* the voltage it is passed
run_cell_leaky(dt, jj, vv, rr, v_thr, tau_m, R_m, thr_gain, refract_T) ==
    LET v1 == Map2(LAMBDA a, m: a * m,
                   Map2(LAMBDA x, a: x + ((a * R_m - x) \div tau_m), vv, jj),
                   wtas_mask(rr, refract_T))
        s1 == wtas_spikes(v1, v_thr)
    IN  [v |-> v1, s |-> s1,
         thr |-> wtas_new_thr(v_thr, s1, thr_gain),
         rfr |-> wtas_new_rfr(rr, s1, dt)]

run_cell(dt, jj, vv, rr, v_thr, tau_m, R_m, thr_gain, refract_T) ==
    LET v1 == Map2(LAMBDA a, m: (a * R_m) * m, jj, wtas_mask(rr, refract_T))
        s1 == wtas_spikes(v1, v_thr)
    IN  [v |-> v1, s |-> s1,
         thr |-> wtas_new_thr(v_thr, s1, thr_gain),
         rfr |-> wtas_new_rfr(rr, s1, dt)]

\* Whether jax.numpy can broadcast the operands of run_cell and update_times.
wtas_shapes_ok(jj, rr, v_thr, tt) ==
    /\ ~BadShape(BShape(Shape(jj), Shape(rr)))
    /\ ~BadShape(BShape(BShape(Shape(jj), Shape(rr)), Shape(v_thr)))
    /\ ~BadShape(BShape(BShape(BShape(Shape(jj), Shape(rr)), Shape(v_thr)), Shape(tt)))

WTAS_advance_state(t, dt, tau_m, R_m, thr_gain, refract_T, jj, vv, ss, hh, rr, tt) ==
    LET c == run_cell(dt, jj, vv, rr, hh, tau_m, R_m, thr_gain, refract_T)
    IN  [v |-> c.v, s |-> c.s, thr |-> c.thr, rfr |-> c.rfr,
         tols |-> update_times(t, c.s, tt)]

\* WTAS_reset with rfr = restVals, the refractory period forgotten
WTAS_reset_norfr(batch_size, n_units, refract_T) ==
    [j |-> Full(batch_size, n_units, 0),
     v |-> Full(batch_size, n_units, 0),
     s |-> Full(batch_size, n_units, 0),
     rfr |-> Full(batch_size, n_units, 0),
     tols |-> Full(batch_size, n_units, 0)]

WTAS_reset(batch_size, n_units, refract_T) ==
    [j |-> Full(batch_size, n_units, 0),
     v |-> Full(batch_size, n_units, 0),
     s |-> Full(batch_size, n_units, 0),
     rfr |-> Full(batch_size, n_units, refract_T),
     tols |-> Full(batch_size, n_units, 0)]

\* file_name keyed by one fixed name instead of the cell's own
file_name_fixed(name) == "Y"

\* directory + "/" + self.name + ".npz"
file_name(name) == name


(***************************************************************************)
(* ngclearn.utils.diffeq.ode_utils: the integrator selector and the two    *)
(* fixed-step integrators.                                                 *)
(***************************************************************************)
\* get_integrator_code taking every selector but "euler" for the midpoint method
get_integrator_code_mid(integrationType) ==
    IF integrationType = "euler" THEN 0 ELSE 1

get_integrator_code(integrationType) ==
    IF integrationType \in {"midpoint", "rk2"} THEN 1 ELSE 0

\* y + dt * dy, element-wise
step_forward(y, dy, dt) == Map2(LAMBDA a, d: a + dt * d, y, dy)

\* new_y = y + dt * f(t, y, params)
step_euler(t, y, f(_, _, _), dt, params) ==
    <<t + dt, step_forward(y, f(t, y, params), dt)>>

\* The midpoint method: f at t gives a half-step state, f at the half step
\* advances y by dt.  (dt/2) * f is quantised like every division.
step_rk2(t, y, f(_, _, _), dt, params) ==
    LET y_half == Map2(LAMBDA a, d: a + ((dt * d) \div 2), y, f(t, y, params))
    IN  <<t + dt, step_forward(y, f(t, y_half, params), dt)>>

(***************************************************************************)
(* RAFCell                                                                 *)
(***************************************************************************)
RAF_update_times(t, ss, tt) ==
    Map2(LAMBDA x, y: (1 - x) * y + (x * t), ss, tt)

\* dv_dt = (omega * w + v * b) * (1/tau_m); j is a parameter it never reads
dfv_internal(jj, vv, ww, tau_m, omega, b) ==
    Map1(LAMBDA x: x \div tau_m,
         Map2(LAMBDA wx, vx: omega * wx + vx * b, ww, vv))

\* params = (j, w, tau_m, omega, b)
dfv(t, vv, params) ==
    dfv_internal(params[1], vv, params[2], params[3], params[4], params[5])

\* dw_dt = (w * b - v * omega + j) * (1/tau_w)
dfw_internal(jj, vv, ww, tau_w, omega, b) ==
    Map1(LAMBDA x: x \div tau_w,
         Map2(LAMBDA a, c: a + c,
              Map2(LAMBDA wx, vx: wx * b - vx * omega, ww, vv), jj))

\* params = (j, v, tau_w, omega, b)
dfw(t, ww, params) ==
    dfw_internal(params[1], params[2], ww, params[3], params[4], params[5])

emit_spike(vv, v_thr) == Map1(LAMBDA x: IF x > v_thr THEN 1 ELSE 0, vv)

\* raf_snap adding the reset value to the candidate instead of replacing it
raf_snap_additive(cand, ss, reset) ==
    Map2(LAMBDA x, z: x + z * reset, cand, ss)

\* raf_snap keeping the candidate of a unit that spiked
raf_snap_keep(cand, ss, reset) ==
    Map2(LAMBDA x, z: x, cand, ss)

\* x * (1 - s) + s * reset: the hyperpolarisation of one compartment
raf_snap(cand, ss, reset) ==
    Map2(LAMBDA x, z: x * (1 - z) + z * reset, cand, ss)

\* raf_candidates integrating the voltage from the new angular driver _w
raf_candidates_seq(dt, tau_m, R_m, tau_w, omega, b, intgFlag, jj, vv, ww) ==
    LET j_ == Map1(LAMBDA x: x * R_m, jj)
        w_params == <<j_, vv, tau_w, omega, b>>
        w1 == IF intgFlag = 1 THEN step_rk2(0, ww, dfw, dt, w_params)[2]
              ELSE step_euler(0, ww, dfw, dt, w_params)[2]
        v_params == <<j_, w1, tau_m, omega, b>>
    IN  [w |-> w1,
         v |-> IF intgFlag = 1 THEN step_rk2(0, vv, dfv, dt, v_params)[2]
               ELSE step_euler(0, vv, dfv, dt, v_params)[2]]

\* The candidates (_w, _v) of one step, by the configured integrator.
raf_candidates(dt, tau_m, R_m, tau_w, omega, b, intgFlag, jj, vv, ww) ==
    LET j_ == Map1(LAMBDA x: x * R_m, jj)
        w_params == <<j_, vv, tau_w, omega, b>>
        v_params == <<j_, ww, tau_m, omega, b>>
    IN  IF intgFlag = 1
        THEN [w |-> step_rk2(0, ww, dfw, dt, w_params)[2],
              v |-> step_rk2(0, vv, dfv, dt, v_params)[2]]
        ELSE [w |-> step_euler(0, ww, dfw, dt, w_params)[2],
              v |-> step_euler(0, vv, dfv, dt, v_params)[2]]

\* RAF_advance_state snapping the voltage of a unit that spiked to v_rest
RAF_advance_state_rest(t, dt, tau_m, R_m, tau_w, thr_, omega, b, v_rest, v_reset, w_reset, intgFlag, jj, vv, ww, tt) ==
    LET c  == raf_candidates(dt, tau_m, R_m, tau_w, omega, b, intgFlag, jj, vv, ww)
        s1 == emit_spike(c.v, thr_)
    IN  [j |-> jj,
         v |-> raf_snap(c.v, s1, v_rest),
         w |-> raf_snap(c.w, s1, w_reset),
         s |-> s1,
         tols |-> RAF_update_times(t, s1, tt)]

RAF_advance_state(t, dt, tau_m, R_m, tau_w, thr_, omega, b, v_rest, v_reset, w_reset, intgFlag, jj, vv, ww, tt) ==
    LET c  == raf_candidates(dt, tau_m, R_m, tau_w, omega, b, intgFlag, jj, vv, ww)
        s1 == emit_spike(c.v, thr_)
    IN  [j |-> jj,
         v |-> raf_snap(c.v, s1, v_reset),
         w |-> raf_snap(c.w, s1, w_reset),
         s |-> s1,
         tols |-> RAF_update_times(t, s1, tt)]

\* Whether jax.numpy can broadcast the operands of RAFCell._advance_state.
raf_shapes_ok(jj, vv, ww, tt) ==
    /\ ~BadShape(BShape(Shape(ww), Shape(vv)))
    /\ ~BadShape(BShape(BShape(Shape(ww), Shape(vv)), Shape(jj)))
    /\ ~BadShape(BShape(BShape(Shape(ww), Shape(vv)), Shape(tt)))

\* RAF_reset with v = restVals, the initial condition forgotten
RAF_reset_zero(batch_size, n_units, v0, w0) ==
    [j |-> Full(batch_size, n_units, 0),
     v |-> Full(batch_size, n_units, 0),
     w |-> Full(batch_size, n_units, w0),
     s |-> Full(batch_size, n_units, 0),
     tols |-> Full(batch_size, n_units, 0)]

RAF_reset(batch_size, n_units, v0, w0) ==
    [j |-> Full(batch_size, n_units, 0),
     v |-> Full(batch_size, n_units, v0),
     w |-> Full(batch_size, n_units, w0),
     s |-> Full(batch_size, n_units, 0),
     tols |-> Full(batch_size, n_units, 0)]


(***************************************************************************)
(* The cells the model constructs, and what a driver feeds them.           *)
(***************************************************************************)
Names == {"X", "Y"}

\* thr_base + random.uniform(subkey, (1, n_units), minval=-thr_jitter,
\* maxval=thr_jitter): u holds the draws, in units of thr_jitter (-1, 0 or 1)
wtas_threshold0(thr_base, thr_jitter, u) ==
    Map1(LAMBDA x: thr_base + thr_jitter * x, u)

\* WTASCell(name, n_units, tau_m, R_m, thr_base, thr_gain, refract_T, thr_jitter)
\* with the jitter draws u; batch_size is always 1.
WTASCell(name, n_units, tau_m, R_m, thr_base, thr_gain, refract_T, thr_jitter, u) ==
    [kind |-> "WTAS", name |-> name, n_units |-> n_units, batch_size |-> 1,
     tau_m |-> tau_m, R_m |-> R_m, thr_base |-> thr_base, thr_gain |-> thr_gain,
     refract_T |-> refract_T,
     threshold0 |-> wtas_threshold0(thr_base, thr_jitter, u)]

\* The cells constructed: the default gain and no refractory period; a
\* refractory period of 2 ms with a larger gain and resistance; a gain that
\* takes a threshold from its base to the floor in one step; a base under
\* the floor; and two populations of five units without refractory period,
\* one with the default base and gain, one with thresholds around the
\* probability 1/5 of a uniform input, which some of its units exceed.
WTASConfigs ==
    { WTASCell("X", 2, 1, 1, 510, 2,   0, 0,  <<<<0, 0>>>>),
      WTASCell("X", 2, 5, 2, 510, 30,  2, 50, <<<<-1, 1>>>>),
      WTASCell("X", 2, 1, 1, 510, 600, 2, 50, <<<<1, 1>>>>),
      WTASCell("X", 2, 1, 1, 10,  2,   0, 0,  <<<<0, 0>>>>),
      WTASCell("X", 1, 5, 2, 510, 30,  2, 50, <<<<1>>>>),
      WTASCell("X", 1, 1, 1, 10,  2,   0, 0,  <<<<0>>>>),
      WTASCell("X", 5, 1, 1, 510, 2,   0, 50, <<<<1, -1, 0, 1, -1>>>>),
      WTASCell("X", 5, 1, 1, 190, 30,  0, 10, <<<<1, -1, 0, 1, -1>>>>) }

\* RAFCell(name, n_units, tau_m, resist_m, tau_w, omega, thr, v_rest, v_reset,
\*         w_reset, b, v0, w0, integration_type, batch_size)
RAFCell(name, n_units, tau_m, resist_m, tau_w, omega, thr_, v_rest, v_reset, w_reset, b, v0, w0, integration_type, batch_size) ==
    [kind |-> "RAF", name |-> name, n_units |-> n_units, batch_size |-> batch_size,
     integrationType |-> integration_type,
     intgFlag |-> get_integrator_code(integration_type),
     tau_m |-> tau_m, R_m |-> resist_m, tau_w |-> tau_w, omega |-> omega,
     b |-> b, v_rest |-> v_rest, v_reset |-> v_reset, w_reset |-> w_reset,
     v0 |-> v0, w0 |-> w0, thr |-> thr_]

\* "heun" is a selector the constructor does not know.
IntegrationTypes == {"euler", "midpoint", "rk2", "heun"}

RAFConfigs ==
    UNION { { RAFCell("X", 1, 2, 1, 2, 2, 5, -7, -3, 1, -1, 0, 0, it, 1),
              RAFCell("X", 2, 3, 2, 4, 3, 5, 0, -5, 0, -1, 6, 4, it, 1),
              RAFCell("X", 1, 3, 2, 4, 3, 5, -7, -3, 1, -1, 6, 4, it, 2) } :
            it \in IntegrationTypes }

\* What a driver passes to one advance: the step size and the input current it
\* set.  The currents are: one dominant unit, uniform, silent, one of a larger
\* batch than the cell's, and one of a larger population than the cell's.
AdvanceInputs(bs, n, lo, hi) ==
    { [dt |-> 1, j |-> Tensor(bs, n, LAMBDA r, c: IF c = 1 THEN hi ELSE 0)],
      [dt |-> 1, j |-> Full(bs, n, lo)],
      [dt |-> 2, j |-> Full(bs, n, 0)],
      [dt |-> 1, j |-> Tensor(bs + 1, n, LAMBDA r, c: IF c = r THEN hi ELSE lo)],
      [dt |-> 1, j |-> Full(bs, n + 1, lo)] }

\* A threshold tensor h as construction or load installs it: above marks the
\* units whose threshold is above the floor.
Installed(h) == [thr |-> h, above |-> Map1(LAMBDA x: IF x > 25 THEN 1 ELSE 0, h)]

\* The units that were above the floor so far and still are in the tensor h.
StillAbove(above, h) ==
    Map2(LAMBDA f, x: IF f = 1 /\ x > 25 THEN 1 ELSE 0, above, h)

Snapshot == [j |-> j, v |-> v, w |-> w, s |-> s, thr |-> thr, rfr |-> rfr,
             tols |-> tols, dir |-> dir]

\* The directories a cell can be constructed beside: one holding another
\* cell's file only, and one holding also the file that an earlier cell of the
\* same name and n_units saved right after its construction.
Dirs(c) ==
    { [f \in Names |-> IF f = c.name THEN NoFile ELSE Full(1, c.n_units, 777)],
      [f \in Names |-> IF f = c.name THEN Full(1, c.n_units, 10)
                       ELSE Full(1, c.n_units, 777)] }

(***************************************************************************)
(* Construction: the compartments as __init__ leaves them.                 *)
(***************************************************************************)
WTASCell_init(c) ==
    [j |-> Full(c.batch_size, c.n_units, 0),
     v |-> Full(c.batch_size, c.n_units, 0),
     w |-> Nil,
     s |-> Full(c.batch_size, c.n_units, 0),
     thr |-> c.threshold0,
     rfr |-> Full(c.batch_size, c.n_units, c.refract_T),
     tols |-> Full(c.batch_size, c.n_units, 0)]

RAFCell_init(c) ==
    [j |-> Full(c.batch_size, c.n_units, 0),
     v |-> Full(c.batch_size, c.n_units, c.v0),
     w |-> Full(c.batch_size, c.n_units, c.w0),
     s |-> Full(c.batch_size, c.n_units, 0),
     thr |-> Nil,
     rfr |-> Nil,
     tols |-> Full(c.batch_size, c.n_units, 0)]

Constructed(c) == IF c.kind = "WTAS" THEN WTASCell_init(c) ELSE RAFCell_init(c)

Init ==
    /\ cfg \in WTASConfigs \cup RAFConfigs
    /\ j = Constructed(cfg).j
    /\ v = Constructed(cfg).v
    /\ w = Constructed(cfg).w
    /\ s = Constructed(cfg).s
    /\ thr = Constructed(cfg).thr
    /\ rfr = Constructed(cfg).rfr
    /\ tols = Constructed(cfg).tols
    /\ dir \in (IF cfg.kind = "WTAS" THEN Dirs(cfg)
                ELSE { [f \in Names |-> NoFile] })
    /\ clk = 0
    /\ calls = 0
    /\ op = [name |-> "init", prev |-> "none", t |-> 0, dt |-> 0]
    /\ pre = Snapshot
    /\ hist = <<>>
    /\ sg = Nil
    /\ ref = IF cfg.kind = "WTAS" THEN Installed(cfg.threshold0) ELSE Nil
    /\ err = "none"

(***************************************************************************)
(* The calls a driver makes.  advance is "set j, then advance_state": the  *)
(* resolver computes the whole result before any compartment is set, so a  *)
(* shape error leaves every compartment but j as it was.                   *)
(***************************************************************************)
WTAS_Advance(dt, jin) ==
    /\ cfg.kind = "WTAS"
    /\ calls < MaxCalls
    /\ j' = jin
    /\ IF wtas_shapes_ok(jin, rfr, thr, tols)
       THEN \E r \in { WTAS_advance_state(clk, dt, cfg.tau_m, cfg.R_m, cfg.thr_gain,
                                           cfg.refract_T, jin, v, s, thr, rfr, tols) } :
                /\ v' = r.v
                /\ s' = r.s
                /\ thr' = r.thr
                /\ rfr' = r.rfr
                /\ tols' = r.tols
                /\ hist' = Append(hist, [t |-> clk, dt |-> dt, j |-> jin,
                                          s |-> r.s, thr |-> r.thr])
                /\ ref' = [ref EXCEPT !.above = StillAbove(ref.above, r.thr)]
                /\ err' = "none"
       ELSE /\ UNCHANGED <<v, s, thr, rfr, tols, hist, ref>>
            /\ err' = "shape"
    /\ clk' = clk + dt
    /\ calls' = calls + 1
    /\ op' = [name |-> "advance", prev |-> op.name, t |-> clk, dt |-> dt]
    /\ pre' = Snapshot
    /\ UNCHANGED <<cfg, sg, w, dir>>

\* WTAS_Reset adding refract_T to the timer it finds instead of to restVals
WTAS_Reset_accum ==
    /\ cfg.kind = "WTAS"
    /\ calls < MaxCalls
    /\ j' = Full(cfg.batch_size, cfg.n_units, 0)
    /\ v' = Full(cfg.batch_size, cfg.n_units, 0)
    /\ s' = Full(cfg.batch_size, cfg.n_units, 0)
    /\ rfr' = Map1(LAMBDA x: x + cfg.refract_T, rfr)
    /\ tols' = Full(cfg.batch_size, cfg.n_units, 0)
    /\ err' = "none"
    /\ op' = [name |-> "reset", prev |-> op.name, t |-> 0, dt |-> 0]
    /\ pre' = Snapshot
    /\ hist' = <<>>
    /\ UNCHANGED <<cfg, sg, ref, w, thr, dir, clk>>
    /\ calls' = calls + 1

WTAS_Reset ==
    /\ cfg.kind = "WTAS"
    /\ calls < MaxCalls
    /\ LET r == WTAS_reset(cfg.batch_size, cfg.n_units, cfg.refract_T)
       IN  /\ j' = r.j
           /\ v' = r.v
           /\ s' = r.s
           /\ rfr' = r.rfr
           /\ tols' = r.tols
    /\ err' = "none"
    /\ op' = [name |-> "reset", prev |-> op.name, t |-> 0, dt |-> 0]
    /\ pre' = Snapshot
    /\ hist' = <<>>
    /\ UNCHANGED <<cfg, sg, ref, w, thr, dir, clk>>
    /\ calls' = calls + 1

\* jnp.savez(file_name, threshold=self.thr.value)
WTAS_Save ==
    /\ cfg.kind = "WTAS"
    /\ calls < MaxCalls
    /\ dir' = [dir EXCEPT ![file_name(cfg.name)] = thr]
    /\ err' = "none"
    /\ op' = [name |-> "save", prev |-> op.name, t |-> 0, dt |-> 0]
    /\ pre' = Snapshot
    /\ UNCHANGED <<cfg, sg, ref, j, v, w, s, thr, rfr, tols, clk, hist>>
    /\ calls' = calls + 1

\* data = jnp.load(file_name); self.thr.set(data['threshold'])
WTAS_Load ==
    /\ cfg.kind = "WTAS"
    /\ calls < MaxCalls
    /\ IF dir[file_name(cfg.name)] = NoFile
       THEN /\ err' = "io"
            /\ UNCHANGED <<thr, ref>>
       ELSE /\ err' = "none"
            /\ thr' = dir[file_name(cfg.name)]
            /\ ref' = Installed(dir[file_name(cfg.name)])
    /\ op' = [name |-> "load", prev |-> op.name, t |-> 0, dt |-> 0]
    /\ pre' = Snapshot
    /\ UNCHANGED <<cfg, sg, j, v, w, s, rfr, tols, dir, clk, hist>>
    /\ calls' = calls + 1

RAF_Advance(dt, jin) ==
    /\ cfg.kind = "RAF"
    /\ calls < MaxCalls
    /\ IF raf_shapes_ok(jin, v, w, tols)
       THEN \E r \in { RAF_advance_state(clk, dt, cfg.tau_m, cfg.R_m, cfg.tau_w,
                                          cfg.thr, cfg.omega, cfg.b, cfg.v_rest,
                                          cfg.v_reset, cfg.w_reset, cfg.intgFlag,
                                          jin, v, w, tols) } :
                /\ j' = r.j
                /\ v' = r.v
                /\ w' = r.w
                /\ s' = r.s
                /\ tols' = r.tols
                /\ hist' = Append(hist, [t |-> clk, dt |-> dt, j |-> jin,
                                          s |-> r.s, thr |-> Nil])
                /\ err' = "none"
       ELSE /\ j' = jin
            /\ UNCHANGED <<v, w, s, tols, hist>>
            /\ err' = "shape"
    /\ clk' = clk + dt
    /\ calls' = calls + 1
    /\ op' = [name |-> "advance", prev |-> op.name, t |-> clk, dt |-> dt]
    /\ pre' = Snapshot
    /\ UNCHANGED <<cfg, sg, ref, thr, rfr, dir>>

RAF_Reset ==
    /\ cfg.kind = "RAF"
    /\ calls < MaxCalls
    /\ LET r == RAF_reset(cfg.batch_size, cfg.n_units, cfg.v0, cfg.w0)
       IN  /\ j' = r.j
           /\ v' = r.v
           /\ w' = r.w
           /\ s' = r.s
           /\ tols' = r.tols
    /\ err' = "none"
    /\ op' = [name |-> "reset", prev |-> op.name, t |-> 0, dt |-> 0]
    /\ pre' = Snapshot
    /\ hist' = <<>>
    /\ UNCHANGED <<cfg, sg, ref, thr, rfr, dir, clk>>
    /\ calls' = calls + 1

Next ==
    \/ \E a \in AdvanceInputs(cfg.batch_size, cfg.n_units, 1, 3) :
          WTAS_Advance(a.dt, a.j)
    \/ WTAS_Reset
    \/ WTAS_Save
    \/ WTAS_Load
    \/ \E a \in AdvanceInputs(cfg.batch_size, cfg.n_units, 4, 12) :
          RAF_Advance(a.dt, a.j)
    \/ RAF_Reset

Spec == Init /\ [][Next]_vars


(***************************************************************************)
(* ngclearn.utils.surrogate_fx: the spike functions that the four builders *)
(* return, and the derivative function of the secant-LIF builder.  The     *)
(* functions are pure; a driver calls a builder, and applies the functions *)
(* it returned to a voltage v, a threshold thr and a current j.            *)
(*                                                                         *)
(* Numbers.  v and thr are whole numbers.  The current j is a whole        *)
(* multiple of (ln 2)/c2, so that dj = j * c2 is a whole multiple of ln 2, *)
(* exp(dj) is a power of two and every value d_spike_fx computes is an     *)
(* exact fraction <<numerator, denominator>>.  c1 and c2 are in hundredths.*)
(***************************************************************************)
\* a spike function with >= for >
spike_fx_geq(vv, thr_) ==
    Map2(LAMBDA x, h: IF x >= h THEN 1 ELSE 0, vv, thr_)

\* straight_through_estimator: spike_fx
straight_through_spike_fx(vv, thr_) ==
    Map2(LAMBDA x, h: IF x > h THEN 1 ELSE 0, vv, thr_)

\* triangular_estimator: spike_fx
triangular_spike_fx(vv, thr_) ==
    Map2(LAMBDA x, h: IF x > h THEN 1 ELSE 0, vv, thr_)

\* arctan_estimator: spike_fx
arctan_spike_fx(vv, thr_) ==
    Map2(LAMBDA x, h: IF x > h THEN 1 ELSE 0, vv, thr_)

\* secant_lif_estimator: spike_fx
secant_lif_spike_fx(vv, thr_) ==
    Map2(LAMBDA x, h: IF x > h THEN 1 ELSE 0, vv, thr_)

Builders == {"straight_through_estimator", "triangular_estimator",
             "arctan_estimator", "secant_lif_estimator"}

\* The first function of the pair that builder() returns, applied.
spike_fx(builder, vv, thr_) ==
    CASE builder = "straight_through_estimator" -> straight_through_spike_fx(vv, thr_)
      [] builder = "triangular_estimator" -> triangular_spike_fx(vv, thr_)
      [] builder = "arctan_estimator" -> arctan_spike_fx(vv, thr_)
      [] builder = "secant_lif_estimator" -> secant_lif_spike_fx(vv, thr_)

\* Arithmetic of fractions <<numerator, denominator>>, kept in lowest terms.
RECURSIVE Gcd(_, _)
Gcd(a, b) == IF b = 0 THEN a ELSE Gcd(b, a % b)

FracNorm(a) == <<a[1] \div Gcd(a[1], a[2]), a[2] \div Gcd(a[1], a[2])>>
FracAdd(a, b) == FracNorm(<<a[1] * b[2] + b[1] * a[2], a[2] * b[2]>>)
FracMul(a, b) == FracNorm(<<a[1] * b[1], a[2] * b[2]>>)
FracInv(a) == <<a[2], a[1]>>
FracEq(a, b) == FracNorm(a) = FracNorm(b)

\* jnp.exp of k * ln 2
ExpFrac(k) == IF k >= 0 THEN <<Exp2(k), 1>> ELSE <<1, Exp2(0 - k)>>

\* c1=0.82
c1 == 82
\* c2=0.08
c2 == 8

\* secant_lif_estimator: d_spike_fx(j, thr, c1, c2, omit_scale); thr is unused
secant_lif_d_spike_fx(jj, thr_, c1_, c2_, omit_scale) ==
    Map1(LAMBDA k:
            LET mask == IF k > 0 THEN 1 ELSE 0
                cosh_j == FracMul(FracAdd(ExpFrac(k), ExpFrac(0 - k)), <<1, 2>>)
                sech_j == FracInv(cosh_j)
                dv_dj == IF omit_scale THEN sech_j
                         ELSE FracMul(sech_j, <<c1_ * c2_, 10000>>)
            IN  FracMul(dv_dj, <<mask, 1>>),
         jj)

\* The arguments a driver applies the functions to: voltages below, at and
\* above the threshold; currents below, at and above 0.
SurrogateInputs ==
    { [v |-> <<<<a, b>>>>, thr |-> <<<<h>>>>, j |-> jj] :
          a \in {-1, 0, 1}, b \in {0, 1}, h \in {0, 1},
          jj \in { <<<<-1, 0>>>>, <<<<1, 2>>>>, <<<<0, 3>>>> } }

\* A driver that has called one builder once and has applied nothing yet.
\* s is what spike_fx returned last and s_of the builder call it came from;
\* s0 is what the spike_fx of the first builder call returned.
SurrInit ==
    /\ cfg = [kind |-> "SURR"]
    /\ j = Nil /\ v = Nil /\ w = Nil /\ s = Nil
    /\ thr = Nil /\ rfr = Nil /\ tols = Nil
    /\ dir = [f \in Names |-> NoFile]
    /\ clk = 0
    /\ calls = 0
    /\ op = [name |-> "init", prev |-> "none", t |-> 0, dt |-> 0]
    /\ pre = Snapshot
    /\ hist = <<>>
    /\ ref = Nil
    /\ err = "none"
    /\ sg \in { [builder |-> b, v |-> a.v, thr |-> a.thr, j |-> a.j,
                  s |-> Nil, s_of |-> 0, s0 |-> Nil,
                  dv_dj |-> Nil, omit_scale |-> TRUE] :
                    b \in Builders, a \in SurrogateInputs }

\* spike_fx, d_spike_fx = builder(): the builder is called once more
Surr_Build ==
    /\ calls < MaxCalls
    /\ calls' = calls + 1
    /\ op' = [name |-> "build", prev |-> op.name, t |-> 0, dt |-> 0]
    /\ UNCHANGED <<cfg, sg, ref, j, v, w, s, thr, rfr, tols, dir, clk, pre, hist, err>>

\* spike_fx(v, thr), by the function of the latest builder call
Surr_Spike ==
    /\ \E r \in { spike_fx(sg.builder, sg.v, sg.thr) } :
          sg' = [sg EXCEPT !.s = r, !.s_of = calls,
                           !.s0 = IF calls = 0 THEN r ELSE sg.s0]
    /\ op' = [name |-> "spike_fx", prev |-> op.name, t |-> 0, dt |-> 0]
    /\ UNCHANGED <<cfg, ref, j, v, w, s, thr, rfr, tols, dir, clk, calls, pre, hist, err>>

\* d_spike_fx(j, omit_scale=omit_scale) of secant_lif_estimator, the other
\* arguments at their defaults
Surr_DSpike(omit_scale) ==
    /\ sg.builder = "secant_lif_estimator"
    /\ \E r \in { secant_lif_d_spike_fx(sg.j, 0, c1, c2, omit_scale) } :
          sg' = [sg EXCEPT !.dv_dj = r, !.omit_scale = omit_scale]
    /\ op' = [name |-> "d_spike_fx", prev |-> op.name, t |-> 0, dt |-> 0]
    /\ UNCHANGED <<cfg, ref, j, v, w, s, thr, rfr, tols, dir, clk, calls, pre, hist, err>>

SurrNext ==
    \/ Surr_Build
    \/ Surr_Spike
    \/ \E o \in BOOLEAN : Surr_DSpike(o)

SurrSpec == SurrInit /\ [][SurrNext]_vars


(***************************************************************************)
(* Properties.                                                             *)
(***************************************************************************)
\* The (row, column) positions of a tensor.
Idx(A) == { <<r, c>> : r \in 1..Len(A), c \in 1..Len(A[1]) }

All(A, P(_)) == \A i \in Idx(A) : P(A[i[1]][i[2]])

FloorOk(A) == All(A, LAMBDA x: x >= 25)

IsWTAS == cfg.kind = "WTAS"
IsRAF == cfg.kind = "RAF"
Advanced == op.name = "advance" /\ err = "none"

\* C1: in a WTASCell advance, every unit whose refractory timer was below
\* refract_T at the start of the step ends the step with voltage 0 and with
\* spike output 0.
C1_RefractoryExclusion ==
    (IsWTAS /\ Advanced) =>
        \A i \in Idx(s) :
            At(pre.rfr, i[1], i[2]) < cfg.refract_T =>
                At(v, i[1], i[2]) = 0 /\ s[i[1]][i[2]] = 0

\* C2: every WTASCell advance leaves every unit's threshold at or above 0.025,
\* and a reset (or an advance that failed) after it leaves the threshold where
\* it was: after one or more advances interleaved with resets, thr >= 0.025.
C2_ThresholdFloorUnderStepping ==
    IsWTAS =>
        /\ Advanced => FloorOk(thr)
        /\ (op.name = "reset" \/ (op.name = "advance" /\ err = "shape"))
               => (FloorOk(pre.thr) => FloorOk(thr))

\* C2's case: an advance took a threshold from above the floor to the floor.
C2_Witness ==
    /\ IsWTAS /\ Advanced
    /\ \E i \in Idx(thr) : thr[i[1]][i[2]] = 25 /\ At(pre.thr, i[1], i[2]) > 25

\* C3 as stated: in every reachable state of a WTASCell (after construction
\* with any thr_base and thr_jitter, reset, advance and load) no unit's
\* threshold is below 0.025.
C3_ThresholdFloorAlways == IsWTAS => FloorOk(thr)

\* C3 amended: a unit's threshold is below 0.025 only while thr is still the
\* tensor the constructor installed (thr_base plus jitter) or the tensor of the
\* cell's file; every other threshold is at or above 0.025.
C3_ThresholdFloorButInstalled ==
    IsWTAS => (FloorOk(thr) \/ thr = cfg.threshold0 \/ thr = dir[cfg.name])

\* C3's case: a load put a threshold under the floor that an advance had
\* brought to it.
C3_Witness ==
    /\ IsWTAS /\ op.name = "load" /\ err = "none"
    /\ FloorOk(pre.thr) /\ ~FloorOk(thr)
    /\ pre.thr # cfg.threshold0

C5_BinarySpikes == All(s, LAMBDA x: x \in {0, 1})

\* C5's case: an advance of a WTASCell in which one unit spiked and one did not.
C5_Witness ==
    /\ IsWTAS /\ Advanced
    /\ \E i \in Idx(s) : s[i[1]][i[2]] = 1
    /\ \E i \in Idx(s) : s[i[1]][i[2]] = 0

\* C6: a reset that follows a reset leaves every compartment (the WTAS
\* threshold included) as the first reset left it, for both cells.
C6_ResetIdempotent ==
    (op.name = "reset" /\ op.prev = "reset") =>
        /\ j = pre.j /\ v = pre.v /\ w = pre.w /\ s = pre.s
        /\ thr = pre.thr /\ rfr = pre.rfr /\ tols = pre.tols

\* C6's case: two resets in a row of a cell that had been advanced, and had a
\* timer to reset.
C6_Witness ==
    /\ op.name = "reset" /\ op.prev = "reset" /\ clk > 0
    /\ IsWTAS /\ cfg.refract_T > 0

\* C7: a WTASCell reset sets j, v, s and tols to 0 and rfr to refract_T for
\* every unit of the batch_size x n_units population, and leaves thr as it was.
C7_WTASResetFrame ==
    (IsWTAS /\ op.name = "reset") =>
        /\ j = Full(cfg.batch_size, cfg.n_units, 0)
        /\ v = Full(cfg.batch_size, cfg.n_units, 0)
        /\ s = Full(cfg.batch_size, cfg.n_units, 0)
        /\ rfr = Full(cfg.batch_size, cfg.n_units, cfg.refract_T)
        /\ tols = Full(cfg.batch_size, cfg.n_units, 0)
        /\ thr = pre.thr

\* C7's case: a reset of a cell whose threshold had adapted away from
\* threshold0 and whose timer, voltage and spikes were not at rest.
C7_Witness ==
    /\ IsWTAS /\ op.name = "reset"
    /\ thr # cfg.threshold0
    /\ cfg.refract_T > 0
    /\ pre.rfr # rfr /\ pre.v # v /\ pre.s # s

\* C8: an RAFCell reset sets j = 0, v = v0, w = w0, s = 0 and tols = 0 for every
\* unit: the state right after construction.
C8_RAFResetRestoresInit ==
    (IsRAF /\ op.name = "reset") =>
        /\ j = Full(cfg.batch_size, cfg.n_units, 0)
        /\ v = Full(cfg.batch_size, cfg.n_units, cfg.v0)
        /\ w = Full(cfg.batch_size, cfg.n_units, cfg.w0)
        /\ s = Full(cfg.batch_size, cfg.n_units, 0)
        /\ tols = Full(cfg.batch_size, cfg.n_units, 0)
        /\ [j |-> j, v |-> v, w |-> w, s |-> s, thr |-> thr, rfr |-> rfr,
            tols |-> tols] = RAFCell_init(cfg)

\* C8's case: a reset of a cell that had just spiked, so that its voltage was
\* at v_reset, which is not v0.
C8_Witness ==
    /\ IsRAF /\ op.name = "reset"
    /\ cfg.v0 # cfg.v_reset /\ cfg.v0 # 0
    /\ \E i \in Idx(pre.s) : pre.s[i[1]][i[2]] = 1 /\ At(pre.v, i[1], i[2]) = cfg.v_reset

\* C9: save writes the cell's threshold, as it is, to the file of the cell's
\* name and to no other; a load that finds that file sets thr to the saved
\* tensor and leaves j, v, s, rfr and tols as they were; no other call writes
\* the directory.
C9_PersistenceRoundTrip ==
    IsWTAS =>
        /\ op.name = "save" =>
              /\ dir[cfg.name] = pre.thr
              /\ \A f \in Names \ {cfg.name} : dir[f] = pre.dir[f]
        /\ op.name # "save" => dir = pre.dir
        /\ (op.name = "load" /\ err = "none") =>
              /\ thr = pre.dir[cfg.name]
              /\ j = pre.j /\ v = pre.v /\ s = pre.s
              /\ rfr = pre.rfr /\ tols = pre.tols

\* C9's case: a load, by a cell that has stepped since, of the threshold the
\* cell saved before it stepped.
C9_Witness ==
    /\ IsWTAS /\ op.name = "load" /\ err = "none"
    /\ thr # pre.thr
    /\ thr = cfg.threshold0
    /\ thr # Full(1, cfg.n_units, 10)
    /\ v # Full(1, cfg.n_units, 0)

\* C10: an advance called with an input current whose shape differs from the
\* shape of the cell's state tensors fails with a shape error.
C10_ShapeMismatchFails ==
    (op.name = "advance" /\ Shape(j) # Shape(pre.v) /\ Shape(j) # Shape(pre.tols))
        => err = "shape"

\* The time of the most recent advance of the history h in which unit (r, c)
\* spiked; 0 if there was none.
RECURSIVE LastSpikeTime(_, _, _)
LastSpikeTime(h, r, c) ==
    IF h = <<>> THEN 0
    ELSE IF At(h[Len(h)].s, r, c) = 1 THEN h[Len(h)].t
    ELSE LastSpikeTime(SubSeq(h, 1, Len(h) - 1), r, c)

\* C11: for both cells, an advance called at time t sets tols to t for every
\* unit that spikes in the step and leaves it as it was for every other unit;
\* so tols never decreases under advances, no call but a reset or a successful
\* advance changes it, and in every state a unit's tols is the time of the most
\* recent advance since construction or the last reset in which the unit spiked
\* (0 if there was none).
C11_TimeOfLastSpike ==
    /\ Advanced =>
          \A i \in Idx(tols) :
              /\ tols[i[1]][i[2]] = IF At(s, i[1], i[2]) = 1 THEN op.t
                                    ELSE At(pre.tols, i[1], i[2])
              /\ tols[i[1]][i[2]] >= At(pre.tols, i[1], i[2])
    /\ (~Advanced /\ op.name # "reset") => tols = pre.tols
    /\ \A i \in Idx(tols) : tols[i[1]][i[2]] = LastSpikeTime(hist, i[1], i[2])

\* C11's case: after two or more advances, one unit spikes at a time t > 0
\* while another, silent in this step, keeps the earlier, positive time of its
\* last spike.
C11_Witness ==
    /\ Advanced /\ Len(hist) >= 2 /\ op.t > 0
    /\ \E i \in Idx(tols) : s[i[1]][i[2]] = 1 /\ tols[i[1]][i[2]] = op.t
    /\ \E i \in Idx(tols) : /\ s[i[1]][i[2]] = 0
                             /\ tols[i[1]][i[2]] > 0
                             /\ tols[i[1]][i[2]] < op.t

\* What one advance of an RAFCell with hyperparameters c and integrator code
\* flag gives from the state before the last call and the current input.
RAFStepWith(c, flag) ==
    RAF_advance_state(op.t, op.dt, c.tau_m, c.R_m, c.tau_w, c.thr, c.omega, c.b,
                      c.v_rest, c.v_reset, c.w_reset, flag, j, pre.v, pre.w, pre.tols)

\* The cell constructed with integration_type "euler" and c's other arguments.
EulerTwin(c) ==
    RAFCell(c.name, c.n_units, c.tau_m, c.R_m, c.tau_w, c.omega, c.thr, c.v_rest,
            c.v_reset, c.w_reset, c.b, c.v0, c.w0, "euler", c.batch_size)

SameAsStep(r) ==
    /\ j = r.j /\ v = r.v /\ w = r.w /\ s = r.s /\ tols = r.tols

\* C12: an RAFCell constructed with an integration_type outside {euler,
\* midpoint, rk2} exists (its construction did not fail), keeps the integrator
\* code chosen at construction, and every advance of it gives exactly the state
\* that the Euler-configured cell gives from the same state and input; the
\* midpoint branch is taken only by cells whose integrator code is 1.
C12_EulerFallback ==
    IsRAF =>
        /\ cfg.intgFlag = get_integrator_code(cfg.integrationType)
        /\ (cfg.integrationType \notin {"euler", "midpoint", "rk2"} /\ Advanced) =>
              \E e \in { EulerTwin(cfg) } :
                  \E r \in { RAFStepWith(e, e.intgFlag) } : SameAsStep(r)
        /\ (cfg.intgFlag # 1 /\ Advanced) =>
              \E r \in { RAFStepWith(cfg, 0) } : SameAsStep(r)

\* C12's case: a cell constructed with the selector "heun" advanced to a state
\* that the midpoint method would not have given.
C12_Witness ==
    /\ IsRAF /\ Advanced /\ cfg.integrationType = "heun"
    /\ v # pre.v
    /\ \E r \in { RAFStepWith(cfg, 1) } : v # r.v

\* The unit of a one-row current A that exceeds all the others, which are
\* equal among themselves; 0 if A is not one-hot dominant.
Dominant(A) ==
    IF /\ Len(A) = 1
       /\ \E c \in 1..Len(A[1]) :
              \A d \in 1..Len(A[1]) \ {c} :
                  A[1][c] > A[1][d] /\ \A e \in 1..Len(A[1]) \ {c} : A[1][d] = A[1][e]
    THEN CHOOSE c \in 1..Len(A[1]) : \A d \in 1..Len(A[1]) \ {c} : A[1][c] > A[1][d]
    ELSE 0

\* The homeostasis scenario: a WTASCell of five units without refractory
\* period on which every call since construction was a successful advance with
\* one and the same one-hot-dominant current.
Homeostasis ==
    /\ IsWTAS /\ cfg.n_units = 5 /\ cfg.refract_T = 0
    /\ hist # <<>> /\ Len(hist) = calls
    /\ Dominant(hist[1].j) # 0
    /\ \A k \in 1..Len(hist) : hist[k].j = hist[1].j

\* C13: in the homeostasis scenario run for as many steps as a driver makes,
\* the threshold of the dominant unit minus the threshold of some other unit
\* has, at some step, become larger than it was at construction.
C13_DominantThresholdRises ==
    (Homeostasis /\ Len(hist) = MaxCalls) =>
        \E d \in { Dominant(hist[1].j) } :
            \E o \in 1..cfg.n_units \ {d} :
                \E k \in 1..Len(hist) :
                    hist[k].thr[1][d] - hist[k].thr[1][o]
                        > cfg.threshold0[1][d] - cfg.threshold0[1][o]

\* C14: the spike function of each of the four surrogate builders returns 1
\* exactly where v > thr and 0 elsewhere (0 where v = thr); on the same
\* arguments all four return the same as each other and as the RAF cell's
\* emit_spike, and the function of a later builder call returns what the
\* function of the first call returned.
C14_SharedHeaviside ==
    (sg # Nil /\ sg.s # Nil) =>
        /\ \A i \in Idx(sg.s) :
              sg.s[i[1]][i[2]] = IF At(sg.v, i[1], i[2]) > At(sg.thr, i[1], i[2])
                                 THEN 1 ELSE 0
        /\ \A b \in Builders : spike_fx(b, sg.v, sg.thr) = sg.s
        /\ emit_spike(sg.v, sg.thr[1][1]) = sg.s
        /\ sg.s0 # Nil => sg.s = sg.s0

\* C14's case: after a first builder call whose function was applied, the
\* function of a later call is applied to a voltage that equals the threshold
\* in one element and exceeds it in the other.
C14_Witness ==
    /\ sg # Nil /\ sg.s # Nil /\ sg.s0 # Nil /\ sg.s_of >= 1
    /\ \E i \in Idx(sg.s) : At(sg.v, i[1], i[2]) = sg.thr[1][1] /\ sg.s[i[1]][i[2]] = 0
    /\ \E i \in Idx(sg.s) : At(sg.v, i[1], i[2]) > sg.thr[1][1] /\ sg.s[i[1]][i[2]] = 1

\* The number of spikes in row r of the spike tensor A.
RowSpikes(A, r) == SeqSum(A[IF Len(A) = 1 THEN 1 ELSE r])

\* C15: in each WTASCell advance a unit spikes exactly when its softmax
\* probability exceeds the threshold it held before the step, and the new
\* threshold of every unit of a row is max(old threshold + (spikes in the
\* row - 1) * thr_gain, 0.025); so, with thr_gain > 0, a threshold above the
\* floor strictly rises when more than one unit of the row fires, strictly
\* falls (possibly to the floor) when none fires, and stays when exactly one
\* fires.
C15_ThresholdAdaptation ==
    (IsWTAS /\ Advanced) =>
        /\ \A i \in Idx(s) :
              s[i[1]][i[2]] = 1 <=> FracGt(At(softmax(v), i[1], i[2]),
                                           At(pre.thr, i[1], i[2]))
        /\ \A i \in Idx(thr) :
            \E old \in { At(pre.thr, i[1], i[2]) } :
                \E n \in { RowSpikes(s, i[1]) } :
                    /\ thr[i[1]][i[2]] = Max(old + (n - 1) * cfg.thr_gain, 25)
                    /\ (cfg.thr_gain > 0 /\ old > 25) =>
                          /\ n > 1 => thr[i[1]][i[2]] > old
                          /\ n = 0 => /\ thr[i[1]][i[2]] < old
                                       /\ thr[i[1]][i[2]] >= 25
                          /\ n = 1 => thr[i[1]][i[2]] = old

\* C15's case: since construction or the last reset the cell has had a step
\* in which no unit fired, one in which exactly one fired and one in which
\* more than one fired, and the last step moved a threshold that was above
\* the floor.
C15_Witness ==
    /\ IsWTAS /\ Advanced /\ cfg.n_units > 1
    /\ \E k \in 1..Len(hist) : RowSpikes(hist[k].s, 1) = 0
    /\ \E k \in 1..Len(hist) : RowSpikes(hist[k].s, 1) = 1
    /\ \E k \in 1..Len(hist) : RowSpikes(hist[k].s, 1) > 1
    /\ \E i \in Idx(thr) : At(pre.thr, i[1], i[2]) > 25
                             /\ thr[i[1]][i[2]] # At(pre.thr, i[1], i[2])

\* The position in the history h of the latest advance in which unit (r, c)
\* spiked; 0 if there was none.
RECURSIVE LastSpikeIdx(_, _, _)
LastSpikeIdx(h, r, c) ==
    IF h = <<>> THEN 0
    ELSE IF At(h[Len(h)].s, r, c) = 1 THEN Len(h)
    ELSE LastSpikeIdx(SubSeq(h, 1, Len(h) - 1), r, c)

\* The sum of the step sizes of the advances k..Len(h) of the history h.
DtSince(h, k) == SeqSum([m \in 1..(Len(h) - k + 1) |-> h[k + m - 1].dt])

\* C16: after a WTASCell advance with step size dt, the refractory timer of a
\* unit that spiked in the step is dt and the timer of a unit that did not is
\* its previous value plus dt; so, in every state, the timer of a unit that
\* has spiked since the last reset is the sum of the step sizes of the
\* advances since and including its last spike, which is dt times their
\* number when they all had the step size dt.
C16_RefractoryTimer ==
    IsWTAS =>
        /\ Advanced =>
              \A i \in Idx(rfr) :
                  rfr[i[1]][i[2]] = IF At(s, i[1], i[2]) = 1 THEN op.dt
                                    ELSE At(pre.rfr, i[1], i[2]) + op.dt
        /\ \A i \in Idx(rfr) :
              \E k \in { LastSpikeIdx(hist, i[1], i[2]) } :
                  k > 0 =>
                      /\ rfr[i[1]][i[2]] = DtSince(hist, k)
                      /\ \A d \in {1, 2} :
                            (\A m \in k..Len(hist) : hist[m].dt = d)
                                => rfr[i[1]][i[2]] = d * (Len(hist) - k + 1)

\* C16's case: one unit spiked in this step, and another spiked last two or
\* more advances ago, the advances since having one step size.
C16_Witness ==
    /\ IsWTAS /\ Advanced
    /\ \E i \in Idx(rfr) : At(s, i[1], i[2]) = 1 /\ rfr[i[1]][i[2]] = op.dt
    /\ \E i \in Idx(rfr) :
          \E k \in { LastSpikeIdx(hist, i[1], i[2]) } :
              /\ k > 0 /\ Len(hist) - k >= 2
              /\ \A m \in k..Len(hist) : hist[m].dt = op.dt
              /\ rfr[i[1]][i[2]] = op.dt * (Len(hist) - k + 1)

\* The derivatives of one unit, from its voltage vx, its angular driver wx and
\* its scaled current jx.
DvUnit(c, vx, wx) == (c.omega * wx + vx * c.b) \div c.tau_m
DwUnit(c, vx, wx, jx) == (wx * c.b - vx * c.omega + jx) \div c.tau_w

\* The voltage candidate of one unit after a step dt: Euler's, or the
\* midpoint method's, with the angular driver held at wx.
VCand(c, dt, vx, wx) ==
    IF c.intgFlag = 1
    THEN vx + dt * DvUnit(c, vx + ((dt * DvUnit(c, vx, wx)) \div 2), wx)
    ELSE vx + dt * DvUnit(c, vx, wx)

\* The angular-driver candidate of one unit, with the voltage held at vx.
WCand(c, dt, vx, wx, jx) ==
    IF c.intgFlag = 1
    THEN wx + dt * DwUnit(c, vx, wx + ((dt * DwUnit(c, vx, wx, jx)) \div 2), jx)
    ELSE wx + dt * DwUnit(c, vx, wx, jx)

Compartments ==
    IF IsWTAS THEN <<j, v, rfr, thr, s, tols>> ELSE <<j, v, w, s, tols>>

\* C18: after construction and after every call that ended without error
\* (advance, reset, save, load), every per-unit state tensor of the cell (j, v,
\* w or rfr, thr, s, tols) has the shape batch_size x n_units it had at
\* construction.
C18_ShapeInvariant ==
    ((IsWTAS \/ IsRAF) /\ err = "none") =>
        \A k \in 1..Len(Compartments) :
            Shape(Compartments[k]) = <<cfg.batch_size, cfg.n_units>>

\* sech^2(k * ln 2) = 4 * 4^k / (4^k + 1)^2, for k >= 0
Sech2(k) == <<4 * Exp2(2 * k), (Exp2(2 * k) + 1) * (Exp2(2 * k) + 1)>>

\* C19: the derivative function of secant_lif_estimator, applied to a current
\* j with the other arguments at their defaults, returns sech^2(c2 * j) where
\* j > 0 and exactly 0 where j <= 0, multiplied by c1 * c2 only when
\* omit_scale is False.
C19_SecantDerivative ==
    (sg # Nil /\ sg.dv_dj # Nil) =>
        \A i \in Idx(sg.dv_dj) :
            \E k \in { sg.j[i[1]][i[2]] } :
                IF k > 0
                THEN FracEq(sg.dv_dj[i[1]][i[2]],
                            IF sg.omit_scale THEN Sech2(k)
                            ELSE FracMul(Sech2(k), <<c1 * c2, 10000>>))
                ELSE sg.dv_dj[i[1]][i[2]][1] = 0

\* Pairs of positions of one row of the tensor A.
RowPairs(A) ==
    { <<r, a, b>> : r \in 1..Len(A), a \in 1..Len(A[1]), b \in 1..Len(A[1]) }

\* C20: in every WTASCell advance the units of a row whose new thresholds are
\* above the 0.025 floor have all moved by the same amount, (row spike count
\* - 1) * thr_gain, whichever of them spiked; and in every state, two units of
\* a row whose thresholds have been above the floor ever since construction
\* or the last load differ in threshold by what they differed then.
C20_UniformShift ==
    IsWTAS =>
        /\ Advanced =>
              \A p \in RowPairs(thr) :
                  (thr[p[1]][p[2]] > 25 /\ thr[p[1]][p[3]] > 25) =>
                      /\ thr[p[1]][p[2]] - At(pre.thr, p[1], p[2])
                            = (RowSpikes(s, p[1]) - 1) * cfg.thr_gain
                      /\ thr[p[1]][p[2]] - At(pre.thr, p[1], p[2])
                            = thr[p[1]][p[3]] - At(pre.thr, p[1], p[3])
        /\ \A p \in RowPairs(thr) :
              (At(ref.above, p[1], p[2]) = 1 /\ At(ref.above, p[1], p[3]) = 1) =>
                  thr[p[1]][p[2]] - thr[p[1]][p[3]]
                      = At(ref.thr, p[1], p[2]) - At(ref.thr, p[1], p[3])

\* C20's case: after two or more advances, two units that started with
\* different thresholds, of which only one spiked in the last step, have both
\* moved away from where they started and have stayed above the floor.
C20_Witness ==
    /\ IsWTAS /\ Advanced /\ Len(hist) >= 2
    /\ \E p \in RowPairs(thr) :
          /\ At(ref.above, p[1], p[2]) = 1 /\ At(ref.above, p[1], p[3]) = 1
          /\ At(ref.thr, p[1], p[2]) # At(ref.thr, p[1], p[3])
          /\ thr[p[1]][p[2]] # At(ref.thr, p[1], p[2])
          /\ thr[p[1]][p[2]] # At(pre.thr, p[1], p[2])
          /\ At(s, p[1], p[2]) = 1 /\ At(s, p[1], p[3]) = 0

\* C21: for an RAFCell with v_reset <= thr, after every advance, from
\* whatever state (an initial v0 above thr included), every unit's stored
\* voltage is at most thr: the stored voltage never satisfies the spike
\* condition v > thr.
C21_StoredVoltageBounded ==
    (IsRAF /\ Advanced /\ cfg.v_reset <= cfg.thr) =>
        /\ All(v, LAMBDA x: x <= cfg.thr)
        /\ emit_spike(v, cfg.thr) = Map1(LAMBDA x: 0, v)

\* C21's case: the first advance of a cell constructed with v0 above thr, in
\* which a unit's candidate voltage exceeded thr and the unit was reset.
C21_Witness ==
    /\ IsRAF /\ Advanced /\ cfg.v_reset <= cfg.thr
    /\ cfg.v0 > cfg.thr /\ op.prev = "init"
    /\ \E i \in Idx(v) :
          /\ At(pre.v, i[1], i[2]) > cfg.thr
          /\ At(s, i[1], i[2]) = 1
          /\ VCand(cfg, op.dt, At(pre.v, i[1], i[2]), At(pre.w, i[1], i[2])) > cfg.thr
          /\ v[i[1]][i[2]] = cfg.v_reset

\* What one advance of a WTASCell with the cell's R_m, thr_gain and refract_T
\* gives from the thresholds, timers and spike times held before the last
\* call and the current input, for a membrane time constant tau and prior
\* voltage and spikes vv and ss.
WTASStepFrom(tau, vv, ss) ==
    WTAS_advance_state(op.t, op.dt, tau, cfg.R_m, cfg.thr_gain, cfg.refract_T,
                       j, vv, ss, pre.thr, pre.rfr, pre.tols)

C23_EligibleAfterReset ==
    (IsWTAS /\ Advanced /\ Len(hist) = 1) =>
        /\ pre.rfr = Full(cfg.batch_size, cfg.n_units, cfg.refract_T)
        /\ All(pre.rfr, LAMBDA x: x >= cfg.refract_T)
        /\ \A i \in Idx(v) : v[i[1]][i[2]] = At(j, i[1], i[2]) * cfg.R_m

\* C23's case: a cell with a refractory period is advanced, reset and
\* advanced again with a current other than 0, which it takes up whole.
C23_Witness ==
    /\ IsWTAS /\ Advanced /\ Len(hist) = 1
    /\ cfg.refract_T > 0 /\ op.prev = "reset" /\ clk > op.dt
    /\ \A i \in Idx(v) : v[i[1]][i[2]] # 0

\* What one advance of the RAFCell gives from the state before the last call
\* when its resting potential is v_rest and its input current is jj.
RAFStepRest(v_rest, jj) ==
    RAF_advance_state(op.t, op.dt, cfg.tau_m, cfg.R_m, cfg.tau_w, cfg.thr, cfg.omega,
                      cfg.b, v_rest, cfg.v_reset, cfg.w_reset, cfg.intgFlag,
                      jj, pre.v, pre.w, pre.tols)

====
